---- MODULE Spec2Model ----
(***************************************************************************)
(* A model of bin/balrogworker.py: the content-addressed publisher         *)
(* (verify_copy_to_s3), its candidate names (possible_names), the          *)
(* classification and submission of manifest entries (submit_releases)     *)
(* and the retry executor the network calls go through.                    *)
(*                                                                         *)
(* Strings are sequences of one-character strings, so that formatting and  *)
(* splitting are computed character by character, as Python does.          *)
(***************************************************************************)
EXTENDS Integers, Sequences, FiniteSets, TLC

VARIABLES
    pnIn,       \* possible_names: the arguments, [name, amount]
    pnOut,      \* possible_names: the returned list, or <<>> before the call
    store,      \* the bucket: a set of objects [name, content, version_id, public]
    disableVerify, \* MOZ_DISABLE_MAR_CERT_VERIFICATION is set in the environment
    pub,        \* per process: the running verify_copy_to_s3 call
    rt,         \* per process: the running retry() call
    tmpfiles,   \* per process: the mkstemp files it left on disk
    calls,      \* per process: the verify_copy_to_s3 calls made so far
    op,         \* the action handed to retry() on its own: how often it fails
    args,       \* main: the parsed command line
    run         \* submit_releases: the loop over the manifest

namesVars == <<pnIn, pnOut>>

pubVars == <<store, disableVerify, pub, rt, tmpfiles, calls>>

\* what the publisher leaves alone
restVars == <<pnIn, pnOut, op, args, run>>

vars == <<pnIn, pnOut, store, disableVerify, pub, rt, tmpfiles, calls, op, args, run>>

(***************************************************************************)
(* Bounds of the model.                                                    *)
(***************************************************************************)
\* longest desired name handed to possible_names on its own
MaxLen == 3
\* largest probe bound handed to possible_names on its own
MaxAmount == 11
\* contents are 0..MaxContent
MaxContent == 3
\* verify_copy_to_s3 calls one process makes
MaxCalls == 2
\* attempts of a retry() call that names none (util.retry's default)
DefaultAttempts == 2
\* the default first sleep and its cap, in seconds
DefaultSleeptime == 1
DefaultMaxSleeptime == 3
\* retry() on its own: the largest attempts, first sleep and cap
MaxAttempts == 4
MaxBase == 3
MaxCap == 7
\* entries of the manifest
MaxEntries == 2

(***************************************************************************)
(* Strings.                                                                *)
(***************************************************************************)
Alphabet == {"a", ".", "/", "-", "1"}

DigitChar == <<"0", "1", "2", "3", "4", "5", "6", "7", "8", "9">>

\* "{}".format(n) of a non-negative integer: its decimal digits
RECURSIVE str(_)
str(n) ==
    IF n < 10 THEN <<DigitChar[n + 1]>>
    ELSE str(n \div 10) \o <<DigitChar[(n % 10) + 1]>>

\* p.rfind(ch), 1-based: the last index holding ch, 0 when there is none
rfind(p, ch) ==
    LET hits == {i \in 1..Len(p) : p[i] = ch}
    IN  IF hits = {} THEN 0 ELSE CHOOSE i \in hits : \A j \in hits : j <= i

\* os.path.splitext: the extension starts at the last dot of the last path
\* component, unless that component has only dots before it
splitext(p) ==
    LET sepIndex == rfind(p, "/")
        dotIndex == rfind(p, ".")
    IN  IF dotIndex > sepIndex
           /\ \E k \in (sepIndex + 1)..(dotIndex - 1) : p[k] # "."
        THEN <<SubSeq(p, 1, dotIndex - 1), SubSeq(p, dotIndex, Len(p))>>
        ELSE <<p, <<>>>>

\* a mutant of possible_names: the counter appended after the extension
possible_names_after_ext(initial_name, amount) ==
    <<initial_name>> \o
        [n \in 1..amount |-> initial_name \o <<"-">> \o str(n)]

\* possible_names(initial_name, amount)
possible_names(initial_name, amount) ==
    LET prefix == splitext(initial_name)[1]
        ext == splitext(initial_name)[2]
    IN  <<initial_name>> \o
            [n \in 1..amount |-> prefix \o <<"-">> \o str(n) \o ext]

(***************************************************************************)
(* The retry executor (util.retry, not among the source files): run the    *)
(* operation; on failure sleep min(base * 2^(k-1), max) before attempt     *)
(* k+1; after `attempts` failures propagate the last error unchanged.      *)
(***************************************************************************)
NoRetry == [n |-> 0, attempts |-> 0, sleeptime |-> 0, max_sleeptime |-> 0,
            sleeps |-> <<>>, calls |-> 0, out |-> [kind |-> "none"],
            last |-> [kind |-> "none"]]

\* retry(action, attempts, sleeptime, max_sleeptime) entered: attempt 1 is next.
\* sleeps, calls and last record history: the sleeps slept, the invocations
\* made and the error of the latest failed one.
retry_begin(attempts, sleeptime, max_sleeptime) ==
    [n |-> 1, attempts |-> attempts, sleeptime |-> sleeptime,
     max_sleeptime |-> max_sleeptime, sleeps |-> <<>>, calls |-> 0,
     out |-> [kind |-> "running"], last |-> [kind |-> "none"]]

\* base * 2^(k-1) capped at max, by doubling and capping k-1 times (the
\* power itself leaves the range of the integers long before attempt 30)
RECURSIVE capped_double(_, _, _)
capped_double(sleeptime, max_sleeptime, k) ==
    LET first == IF sleeptime > max_sleeptime THEN max_sleeptime ELSE sleeptime
        before == capped_double(sleeptime, max_sleeptime, k - 1)
    IN  IF k = 1 THEN first
        ELSE IF before * 2 > max_sleeptime THEN max_sleeptime ELSE before * 2

\* a mutant of retry_delay: the sleep before every attempt is the first one
retry_delay_constant(r) == capped_double(r.sleeptime, r.max_sleeptime, 1)

\* the sleep before attempt n+1: min(base * 2^(n-1), max)
retry_delay(r) == capped_double(r.sleeptime, r.max_sleeptime, r.n)

\* the action was invoked and returned value: retry returns it
retry_returned(r, value) ==
    [r EXCEPT !.calls = @ + 1, !.out = [kind |-> "returned", value |-> value]]

\* the action was invoked and raised err: sleep and go on while attempts
\* remain, else raise err as it is
retry_failed(r, err) ==
    IF r.n < r.attempts
    THEN [r EXCEPT !.calls = @ + 1, !.n = @ + 1, !.last = err,
                   !.sleeps = Append(@, retry_delay(r))]
    ELSE [r EXCEPT !.calls = @ + 1, !.last = err,
                   !.out = [kind |-> "raised", value |-> err]]

(***************************************************************************)
(* The blob store and the publisher, verify_copy_to_s3.                    *)
(***************************************************************************)
Procs == {"p1", "p2"}

Contents == 0..MaxContent

\* possible_names(mar_dest, 10)
ProbeBound == 10

DesiredNames == {<<"a", ".", "m">>}

\* get_hash: the MD5 digest, which is not injective
get_hash(content) == (content + 1) \div 2

\* MarFile(...).verify_signatures(): content 0 carries no valid signature
signature_ok(content) == content # 0

Lookup(name) == {o \in store : o.name = name}

IdleCall == [pc |-> "idle", mar_dest |-> <<>>, content |-> 0, i |-> 0,
             file |-> -1, version_id |-> 0, verified |-> FALSE,
             lookups |-> 0, writes |-> 0, verifies |-> 0,
             result |-> [kind |-> "none"], prev |-> [kind |-> "none"],
             full0 |-> FALSE, stored0 |-> 0]

Ended(p) == pub[p].pc \in {"returned", "raised"}

CandidateName(p) == possible_names(pub[p].mar_dest, ProbeBound)[pub[p].i]

\* key.generate_url(expires_in=0, query_auth=False, version_id=...)
generate_url(name, version_id) ==
    [kind |-> "url", name |-> name, version_id |-> version_id]

Error(what, arg) == [kind |-> "error", error |-> what, arg |-> arg]

\* what the call before this one was and how it ended
Summary(c) == [kind |-> "call", mar_dest |-> c.mar_dest, content |-> c.content,
               result |-> c.result, writes |-> c.writes]

\* every candidate name of mar_dest is taken by an object whose MD5 differs
\* from the content's
AllTaken(mar_dest, content) ==
    \A j \in 1..(ProbeBound + 1) :
        \E o \in Lookup(possible_names(mar_dest, ProbeBound)[j]) :
            get_hash(o.content) # get_hash(content)

\* the first candidate name of mar_dest that holds an object with the MD5 of
\* content, as an index into possible_names; 0 when none does
FirstStored(mar_dest, content) ==
    LET holding == {j \in 1..(ProbeBound + 1) :
                      \E o \in Lookup(possible_names(mar_dest, ProbeBound)[j]) :
                          get_hash(o.content) = get_hash(content)}
    IN  IF holding = {} THEN 0
        ELSE CHOOSE j \in holding : \A k \in holding : j <= k

\* lines 58-63: connect, get the bucket, mkstemp; download is entered.
\* prev, full0 and stored0 record history: the call before, and the bucket
\* as found.
BeginCall(p, content, mar_dest) ==
    /\ pub' = [pub EXCEPT ![p] =
                 [IdleCall EXCEPT !.pc = "download", !.mar_dest = mar_dest,
                                  !.content = content,
                                  !.full0 = AllTaken(mar_dest, content),
                                  !.stored0 = FirstStored(mar_dest, content),
                                  !.prev = IF pub[p].pc = "idle"
                                           THEN [kind |-> "none"]
                                           ELSE Summary(pub[p])]]
    /\ tmpfiles' = [tmpfiles EXCEPT ![p] = @ + 1]
    /\ rt' = [rt EXCEPT ![p] = retry_begin(DefaultAttempts, DefaultSleeptime,
                                           DefaultMaxSleeptime)]
    /\ calls' = [calls EXCEPT ![p] = @ + 1]

\* a caller of verify_copy_to_s3 outside submit_releases: its first call
Publish(p) ==
    /\ pub[p].pc = "idle"
    /\ \E content \in Contents, mar_dest \in DesiredNames :
          BeginCall(p, content, mar_dest)
    /\ UNCHANGED <<store, disableVerify, restVars>>

\* the caller runs again (a retried job): the same artifact, the same name
Republish(p) ==
    /\ Ended(p)
    /\ calls[p] < MaxCalls
    /\ BeginCall(p, pub[p].content, pub[p].mar_dest)
    /\ UNCHANGED <<store, disableVerify, restVars>>

\* line 64, download() succeeds: the staged file holds the artifact
DownloadOk(p) ==
    /\ pub[p].pc = "download"
    /\ rt' = [rt EXCEPT ![p] = retry_returned(@, "None")]
    /\ pub' = [pub EXCEPT ![p].pc = "verify", ![p].file = pub[p].content]
    /\ UNCHANGED <<store, disableVerify, tmpfiles, calls, restVars>>

\* line 64, download() fails (lines 33 and 45): retried by @retriable, and
\* raised out of verify_copy_to_s3 after the last attempt
DownloadFail(p) ==
    /\ pub[p].pc = "download"
    /\ LET r == retry_failed(rt[p], Error("IOError", <<>>))
       IN  /\ rt' = [rt EXCEPT ![p] = r]
           /\ pub' = IF r.out.kind = "raised"
                     THEN [pub EXCEPT ![p].pc = "raised",
                                      ![p].result = r.out.value]
                     ELSE pub
    /\ UNCHANGED <<store, disableVerify, tmpfiles, calls, restVars>>

\* a mutant of Verify: the store is probed whatever the signature
VerifyIgnored(p) ==
    /\ pub[p].pc = "verify"
    /\ pub' = [pub EXCEPT ![p].pc = "get_key", ![p].i = 1,
                          ![p].verifies = IF disableVerify THEN @ ELSE @ + 1,
                          ![p].verified = ~disableVerify /\ signature_ok(pub[p].file)]
    /\ UNCHANGED <<store, disableVerify, rt, tmpfiles, calls, restVars>>

\* lines 66-68: verify the signature unless the override is set, then enter
\* the loop over the candidate names
Verify(p) ==
    /\ pub[p].pc = "verify"
    /\ IF disableVerify
       THEN pub' = [pub EXCEPT ![p].pc = "get_key", ![p].i = 1]
       ELSE IF signature_ok(pub[p].file)
            THEN pub' = [pub EXCEPT ![p].pc = "get_key", ![p].i = 1,
                                    ![p].verifies = @ + 1,
                                    ![p].verified = TRUE]
            ELSE pub' = [pub EXCEPT ![p].pc = "raised",
                                    ![p].verifies = @ + 1,
                                    ![p].result = Error("VerificationFailed", <<>>)]
    /\ UNCHANGED <<store, disableVerify, rt, tmpfiles, calls, restVars>>

\* a mutant of NextCandidate: no raise after the loop, the call returns None
NextCandidateNoRaise(c) ==
    IF c.i = ProbeBound + 1
    THEN [c EXCEPT !.pc = "returned"]
    ELSE [c EXCEPT !.pc = "get_key", !.i = @ + 1]

\* the loop goes on to the next name; line 98 after the last one
NextCandidate(c) ==
    IF c.i = ProbeBound + 1
    THEN [c EXCEPT !.pc = "raised",
                   !.result = Error("Cannot generate a unique name", c.mar_dest)]
    ELSE [c EXCEPT !.pc = "get_key", !.i = @ + 1]

\* a mutant of GetKey: a taken name is never recognised as this content
GetKeyNoShortCircuit(p) ==
    /\ pub[p].pc = "get_key"
    /\ IF Lookup(CandidateName(p)) = {}
       THEN pub' = [pub EXCEPT ![p].pc = "set_contents", ![p].lookups = @ + 1]
       ELSE pub' = [pub EXCEPT ![p] = NextCandidate([@ EXCEPT !.lookups = @ + 1])]
    /\ UNCHANGED <<store, disableVerify, rt, tmpfiles, calls, restVars>>

\* a mutant of GetKey: a name taken by other content is written to all the same
GetKeyOverwrite(p) ==
    /\ pub[p].pc = "get_key"
    /\ IF Lookup(CandidateName(p)) = {}
       THEN pub' = [pub EXCEPT ![p].pc = "set_contents", ![p].lookups = @ + 1]
       ELSE LET key == CHOOSE o \in Lookup(CandidateName(p)) : TRUE
            IN  IF get_hash(key.content) = get_hash(pub[p].file)
                THEN pub' = [pub EXCEPT ![p].pc = "returned",
                                ![p].lookups = @ + 1,
                                ![p].version_id = key.version_id,
                                ![p].result = generate_url(CandidateName(p),
                                                           key.version_id)]
                ELSE pub' = [pub EXCEPT ![p].pc = "set_contents",
                                        ![p].lookups = @ + 1]
    /\ UNCHANGED <<store, disableVerify, rt, tmpfiles, calls, restVars>>

\* a mutant of GetKey: the URL of a taken name is returned without comparing
GetKeyAnyContent(p) ==
    /\ pub[p].pc = "get_key"
    /\ IF Lookup(CandidateName(p)) = {}
       THEN pub' = [pub EXCEPT ![p].pc = "set_contents", ![p].lookups = @ + 1]
       ELSE LET key == CHOOSE o \in Lookup(CandidateName(p)) : TRUE
            IN  pub' = [pub EXCEPT ![p].pc = "returned",
                            ![p].lookups = @ + 1,
                            ![p].version_id = key.version_id,
                            ![p].result = generate_url(CandidateName(p),
                                                       key.version_id)]
    /\ UNCHANGED <<store, disableVerify, rt, tmpfiles, calls, restVars>>

\* lines 70-71 and 88-96: bucket.get_key(name); when the name is taken, the
\* object's MD5 is compared with the staged file's: the same means already
\* published (the objects of the bucket never change, so the two reads are
\* one step)
GetKey(p) ==
    /\ pub[p].pc = "get_key"
    /\ IF Lookup(CandidateName(p)) = {}
       THEN pub' = [pub EXCEPT ![p].pc = "set_contents", ![p].lookups = @ + 1]
       ELSE LET key == CHOOSE o \in Lookup(CandidateName(p)) : TRUE
            IN  IF get_hash(key.content) = get_hash(pub[p].file)
                THEN pub' = [pub EXCEPT ![p].pc = "returned",
                                ![p].lookups = @ + 1,
                                ![p].version_id = key.version_id,
                                ![p].result = generate_url(CandidateName(p),
                                                           key.version_id)]
                ELSE pub' = [pub EXCEPT ![p] =
                                NextCandidate([@ EXCEPT !.lookups = @ + 1])]
    /\ UNCHANGED <<store, disableVerify, rt, tmpfiles, calls, restVars>>

\* a mutant of SetContents: losing the race for a name is an error
SetContentsRaceFatal(p) ==
    /\ pub[p].pc = "set_contents"
    /\ IF Lookup(CandidateName(p)) # {}
       THEN /\ pub' = [pub EXCEPT ![p].pc = "raised", ![p].writes = @ + 1,
                                  ![p].result = Error("S3CreateError", <<>>)]
            /\ UNCHANGED store
       ELSE /\ store' = store \cup {[name |-> CandidateName(p),
                                     content |-> pub[p].file,
                                     version_id |-> Cardinality(store) + 1,
                                     public |-> FALSE]}
            /\ pub' = [pub EXCEPT ![p].pc = "set_acl", ![p].writes = @ + 1,
                                  ![p].version_id = Cardinality(store) + 1]
    /\ UNCHANGED <<disableVerify, rt, tmpfiles, calls, restVars>>

\* lines 73-79: key.set_contents_from_filename(dest, replace=False), which
\* writes nothing and returns None when the name exists by now
SetContents(p) ==
    /\ pub[p].pc = "set_contents"
    /\ IF Lookup(CandidateName(p)) # {}
       THEN /\ pub' = [pub EXCEPT ![p] = NextCandidate([@ EXCEPT !.writes = @ + 1])]
            /\ UNCHANGED store
       ELSE /\ store' = store \cup {[name |-> CandidateName(p),
                                     content |-> pub[p].file,
                                     version_id |-> Cardinality(store) + 1,
                                     public |-> FALSE]}
            /\ pub' = [pub EXCEPT ![p].pc = "set_acl", ![p].writes = @ + 1,
                                  ![p].version_id = Cardinality(store) + 1]
    /\ UNCHANGED <<disableVerify, rt, tmpfiles, calls, restVars>>

\* lines 83-87: public-read on the version just written, and its URL
SetAcl(p) ==
    /\ pub[p].pc = "set_acl"
    /\ store' = {IF o.name = CandidateName(p) /\ o.version_id = pub[p].version_id
                 THEN [o EXCEPT !.public = TRUE] ELSE o : o \in store}
    /\ pub' = [pub EXCEPT ![p].pc = "returned",
                          ![p].result = generate_url(CandidateName(p),
                                                     pub[p].version_id)]
    /\ UNCHANGED <<disableVerify, rt, tmpfiles, calls, restVars>>

\* possible_names has not been called on its own
NoCall == [name |-> <<>>, amount |-> 0]

PrefilledStore(mar_dest, k, content) ==
    {[name |-> possible_names(mar_dest, ProbeBound)[j], content |-> content,
      version_id |-> j, public |-> TRUE] : j \in 1..k}

(***************************************************************************)
(* main and submit_releases.                                               *)
(***************************************************************************)
NoOp == [fails |-> 0]

NoArgs == [disable_s3 |-> FALSE, s3_bucket |-> "", aws_key_id |-> "",
           aws_key_secret |-> ""]

\* line 265: credentials missing (None or empty) or --disable-s3 turn uploads off
uploads_enabled ==
    /\ ~args.disable_s3
    /\ args.s3_bucket # ""
    /\ args.aws_key_id # ""
    /\ args.aws_key_secret # ""

\* the parent task's artifacts URL (load_task)
parent_url == <<"u">>

\* a manifest entry with every field the code reads
FullEntry(mar, to_mar) ==
    [platform |-> <<"l">>, appName |-> <<"a">>, version |-> <<"v">>,
     toVersion |-> <<"t">>, toBuildNumber |-> 7, to_buildid |-> <<"2">>,
     from_buildid |-> <<"1">>, locale |-> <<"e">>, branch |-> <<"b">>,
     mar |-> mar, to_mar |-> to_mar, hash |-> "h1", size |-> 100,
     to_hash |-> "h2", to_size |-> 200,
     previousVersion |-> <<"o">>, previousBuildNumber |-> 3]

AllFields == DOMAIN FullEntry(<<>>, <<>>)

StyleFields == {"previousVersion", "previousBuildNumber", "from_buildid"}

\* the entries of the model: any of the three style fields may be missing, and
\* one of the other fields
Entries ==
    {[f \in AllFields \ (noStyle \cup other) |-> FullEntry(mar, to_mar)[f]] :
        noStyle \in SUBSET StyleFields,
        other \in {{}, {"to_hash"}, {"size"}, {"platform"}, {"version"}},
        mar \in {<<"p", ".", "m">>, <<"q", ".", "m">>},
        to_mar \in {<<"c">>, <<"d">>}}

\* what requests.get(url) serves: q.m and d carry no valid signature
Served(url) ==
    CASE url = <<"u", "/", "p", ".", "m">> -> 1
      [] url = <<"u", "/", "q", ".", "m">> -> 0
      [] url = <<"c">> -> 3
      [] url = <<"d">> -> 0
      [] OTHER -> 2

\* e[f] raises KeyError for the first of fields that e lacks; "" when none
FirstMissing(e, fields) ==
    LET lacking == {i \in 1..Len(fields) : fields[i] \notin DOMAIN e}
    IN  IF lacking = {} THEN ""
        ELSE fields[CHOOSE i \in lacking : \A j \in lacking : i <= j]

\* d[k] = v
Put(d, k, v) == [f \in DOMAIN d \cup {k} |-> IF f = k THEN v ELSE d[f]]

\* "{}/{}".format(a, b)
Slash(a, b) == a \o <<"/">> \o b

Dash == <<"-">>

\* lines 226-234
complete_mar_dest(e) ==
    Slash(Slash(e.branch, e.to_buildid),
          e.appName \o Dash \o e.branch \o Dash \o e.version \o Dash
            \o e.platform \o Dash \o e.locale
            \o <<".", "c", "o", "m", "p", "l", "e", "t", "e", ".", "m", "a", "r">>)

\* the fields read on the way to the first publish, in the order read
NightlyFields == <<"mar", "to_mar", "branch", "to_buildid", "appName",
                   "version", "platform", "locale">>

\* the fields the release-style lambda reads, in the order read
ReleaseFields == <<"platform", "appName", "toVersion", "toBuildNumber",
                   "version", "to_buildid", "locale">>

\* a mutant of ReleasePayload: completeInfo is given the entry's to_mar as URL
ReleasePayloadWithUrl(r) ==
    [style |-> "release", platform |-> r.entry.platform,
     productName |-> r.entry.appName, version |-> r.entry.toVersion,
     build_number |-> r.entry.toBuildNumber, appVersion |-> r.entry.version,
     extVersion |-> r.entry.version, buildID |-> r.entry.to_buildid,
     locale |-> r.entry.locale, hashFunction |-> "sha512",
     partialInfo |-> <<r.partial_info>>,
     completeInfo |-> <<Put(r.complete_info, "url", r.entry.to_mar)>>]

\* lines 209-217: what ReleaseSubmitterV4.run is called with
ReleasePayload(r) ==
    [style |-> "release", platform |-> r.entry.platform,
     productName |-> r.entry.appName, version |-> r.entry.toVersion,
     build_number |-> r.entry.toBuildNumber, appVersion |-> r.entry.version,
     extVersion |-> r.entry.version, buildID |-> r.entry.to_buildid,
     locale |-> r.entry.locale, hashFunction |-> "sha512",
     partialInfo |-> <<r.partial_info>>, completeInfo |-> <<r.complete_info>>]

\* lines 244-249: what NightlySubmitterV4.run is called with
NightlyPayload(r) ==
    [style |-> "nightly", platform |-> r.entry.platform,
     buildID |-> r.entry.to_buildid, productName |-> r.entry.appName,
     branch |-> r.entry.branch, appVersion |-> r.entry.version,
     locale |-> r.entry.locale, hashFunction |-> "sha512",
     extVersion |-> r.entry.version,
     partialInfo |-> <<r.partial_info>>, completeInfo |-> <<r.complete_info>>]

\* the errors a submission raises
SubmitErrors == {Error("HTTPError", 500), Error("ConnectionError", 0)}

\* line 250
NightlyAttempts == 30
NightlySleeptime == 10
NightlyMaxSleeptime == 60

\* a mutant of NightlyRetry: the keyword arguments of line 250 left out
NightlyRetryDefaults ==
    retry_begin(DefaultAttempts, DefaultSleeptime, DefaultMaxSleeptime)

\* lines 244-251: retry(..., attempts=30, sleeptime=10, max_sleeptime=60)
NightlyRetry ==
    retry_begin(NightlyAttempts, NightlySleeptime, NightlyMaxSleeptime)

\* the process that runs main
Runner == "p1"

\* ei, style, classified, published, payload and at record history: the
\* entries taken, the branch taken for this entry, how often it was
\* classified, its publish calls, the payload that was accepted, and where
\* the run was when it aborted; fetched records what each read of the manifest
\* by get_manifest came to
IdleRun == [rpc |-> "next", ei |-> 0, entry |-> <<>>, style |-> "none",
            classified |-> 0, partial_info |-> <<>>, complete_info |-> <<>>,
            published |-> <<>>, payload |-> [style |-> "none"],
            error |-> [kind |-> "none"], at |-> "none", fetched |-> <<>>]

\* a mutant of Abort: the error is noted and the loop goes on with the next entry
AbortSkipEntry(r, err) == [r EXCEPT !.rpc = "next", !.error = err, !.at = r.rpc]

\* an exception leaves submit_releases and main
Abort(r, err) == [r EXCEPT !.rpc = "aborted", !.error = err, !.at = r.rpc]

HashFields == <<"to_hash", "to_size", "hash", "size">>

\* history: verify_copy_to_s3 was called for mar_dest
Called(mar_dest) == [mar_dest |-> mar_dest, result |-> [kind |-> "none"]]

\* history: the k-th publish call of the entry ended as the runner's call did
Returned(r, k) == [r EXCEPT !.published[k].result = pub[Runner].result]

\* a mutant of partial_mar_dest: the source build id in place of the target's
partial_mar_dest_from(e) == Slash(Slash(e.branch, e.from_buildid), e.mar)

\* lines 223-225
partial_mar_dest(e) == Slash(Slash(e.branch, e.to_buildid), e.mar)

\* lines 192-200: the loop takes the next entry and reads its hashes and
\* sizes; the records of the calls made for the entry before are dropped
ForEntry ==
    /\ run.rpc = "next"
    /\ run.ei < MaxEntries
    /\ \E e \in Entries :
          LET r == [run EXCEPT !.ei = @ + 1, !.entry = e, !.style = "none",
                               !.classified = 0, !.published = <<>>,
                               !.payload = [style |-> "none"],
                               !.partial_info = <<>>, !.complete_info = <<>>,
                               !.rpc = "entry"]
          IN  run' = IF FirstMissing(e, HashFields) # ""
                     THEN Abort(r, Error("KeyError", FirstMissing(e, HashFields)))
                     ELSE [r EXCEPT !.rpc = "classify",
                                    !.complete_info = [hash |-> e.to_hash,
                                                       size |-> e.to_size],
                                    !.partial_info = [hash |-> e.hash,
                                                      size |-> e.size]]
    /\ pub' = [pub EXCEPT ![Runner] = IdleCall]
    /\ rt' = [rt EXCEPT ![Runner] = NoRetry]
    /\ UNCHANGED <<store, disableVerify, tmpfiles, calls, namesVars, op, args>>

\* line 192: the manifest has no further entry; submit_releases returns
RunDone ==
    /\ run.rpc = "next"
    /\ run' = [run EXCEPT !.rpc = "done"]
    /\ UNCHANGED <<pubVars, namesVars, op, args>>

\* a mutant of Classify: a from_buildid entry is nightly-style even with
\* uploads off
ClassifyIgnoringUploads ==
    /\ run.rpc = "classify"
    /\ LET e == run.entry
           r == [run EXCEPT !.classified = @ + 1]
       IN  IF "previousVersion" \in DOMAIN e /\ "previousBuildNumber" \in DOMAIN e
           THEN /\ run' = [r EXCEPT
                     !.style = "release", !.rpc = "submit",
                     !.partial_info =
                        Put(Put(@, "previousVersion", e.previousVersion),
                            "previousBuildNumber", e.previousBuildNumber)]
                /\ rt' = [rt EXCEPT ![Runner] =
                            retry_begin(DefaultAttempts, DefaultSleeptime,
                                        DefaultMaxSleeptime)]
           ELSE IF "from_buildid" \in DOMAIN e
           THEN /\ run' = [r EXCEPT !.style = "nightly", !.rpc = "nightly"]
                /\ UNCHANGED rt
           ELSE /\ run' = Abort(r, Error("Cannot determine Balrog submission style", <<>>))
                /\ UNCHANGED rt
    /\ UNCHANGED <<store, disableVerify, pub, tmpfiles, calls, namesVars, op, args>>

\* lines 202-208, 218 and 252-253: the style of the entry
Classify ==
    /\ run.rpc = "classify"
    /\ LET e == run.entry
           r == [run EXCEPT !.classified = @ + 1]
       IN  IF "previousVersion" \in DOMAIN e /\ "previousBuildNumber" \in DOMAIN e
           THEN /\ run' = [r EXCEPT
                     !.style = "release", !.rpc = "submit",
                     !.partial_info =
                        Put(Put(@, "previousVersion", e.previousVersion),
                            "previousBuildNumber", e.previousBuildNumber)]
                /\ rt' = [rt EXCEPT ![Runner] =
                            retry_begin(DefaultAttempts, DefaultSleeptime,
                                        DefaultMaxSleeptime)]
           ELSE IF "from_buildid" \in DOMAIN e /\ uploads_enabled
           THEN /\ run' = [r EXCEPT !.style = "nightly", !.rpc = "nightly"]
                /\ UNCHANGED rt
           ELSE /\ run' = Abort(r, Error("Cannot determine Balrog submission style", <<>>))
                /\ UNCHANGED rt
    /\ UNCHANGED <<store, disableVerify, pub, tmpfiles, calls, namesVars, op, args>>

\* a mutant of PublishPartial: the complete artifact is published first
PublishCompleteFirst ==
    /\ run.rpc = "nightly"
    /\ LET e == run.entry
       IN  IF FirstMissing(e, NightlyFields) # ""
           THEN /\ run' = Abort(run, Error("KeyError", FirstMissing(e, NightlyFields)))
                /\ UNCHANGED <<pub, rt, tmpfiles, calls>>
           ELSE /\ BeginCall(Runner, Served(e.to_mar), complete_mar_dest(e))
                /\ run' = [run EXCEPT !.rpc = "pub_partial",
                              !.published = Append(@, Called(complete_mar_dest(e)))]
    /\ UNCHANGED <<store, disableVerify, namesVars, op, args>>

\* lines 219-237: the source URLs and destination names, and the publish of
\* the partial artifact is entered
PublishPartial ==
    /\ run.rpc = "nightly"
    /\ LET e == run.entry
       IN  IF FirstMissing(e, NightlyFields) # ""
           THEN /\ run' = Abort(run, Error("KeyError", FirstMissing(e, NightlyFields)))
                /\ UNCHANGED <<pub, rt, tmpfiles, calls>>
           ELSE /\ BeginCall(Runner, Served(Slash(parent_url, e.mar)),
                             partial_mar_dest(e))
                /\ run' = [run EXCEPT !.rpc = "pub_partial",
                              !.published = Append(@, Called(partial_mar_dest(e)))]
    /\ UNCHANGED <<store, disableVerify, namesVars, op, args>>

\* lines 235-240: the partial's URL is kept and the publish of the complete
\* artifact is entered; an exception of the publish leaves submit_releases
PublishComplete ==
    /\ run.rpc = "pub_partial"
    /\ Ended(Runner)
    /\ LET e == run.entry
       IN  IF pub[Runner].pc = "raised"
           THEN /\ run' = Abort(Returned(run, 1), pub[Runner].result)
                /\ UNCHANGED <<pub, rt, tmpfiles, calls>>
           ELSE /\ BeginCall(Runner, Served(e.to_mar), complete_mar_dest(e))
                /\ run' = [Returned(run, 1) EXCEPT !.rpc = "pub_complete",
                              !.partial_info = Put(@, "url", pub[Runner].result),
                              !.published = Append(@, Called(complete_mar_dest(e)))]
    /\ UNCHANGED <<store, disableVerify, namesVars, op, args>>

\* lines 238-251: the complete's URL and from_buildid are kept and the
\* submission is entered
PublishDone ==
    /\ run.rpc = "pub_complete"
    /\ Ended(Runner)
    /\ IF pub[Runner].pc = "raised"
       THEN /\ run' = Abort(Returned(run, 2), pub[Runner].result)
            /\ UNCHANGED rt
       ELSE /\ run' = [Returned(run, 2) EXCEPT !.rpc = "submit",
                          !.complete_info = Put(@, "url", pub[Runner].result),
                          !.partial_info = Put(@, "from_buildid",
                                               run.entry.from_buildid)]
            /\ rt' = [rt EXCEPT ![Runner] = NightlyRetry]
    /\ UNCHANGED <<store, disableVerify, pub, tmpfiles, calls, namesVars, op, args>>

\* the fields the lambda reads when it is invoked
LambdaFields == IF run.style = "release" THEN ReleaseFields ELSE NightlyFields

\* lines 209-217 and 244-251: submitter.run succeeds, the entry is done
SubmitOk ==
    /\ run.rpc = "submit"
    /\ FirstMissing(run.entry, LambdaFields) = ""
    /\ rt' = [rt EXCEPT ![Runner] = retry_returned(@, "None")]
    /\ run' = [run EXCEPT !.rpc = "next",
                   !.payload = IF run.style = "release"
                               THEN ReleasePayload(run) ELSE NightlyPayload(run)]
    /\ UNCHANGED <<store, disableVerify, pub, tmpfiles, calls, namesVars, op, args>>

\* a mutant of SubmitFail: when the submission has failed for good, the
\* objects published for the entry are deleted
SubmitFailRollback ==
    /\ run.rpc = "submit"
    /\ \E err \in IF FirstMissing(run.entry, LambdaFields) # ""
                  THEN {Error("KeyError", FirstMissing(run.entry, LambdaFields))}
                  ELSE SubmitErrors :
          LET r == retry_failed(rt[Runner], err)
              names == {run.published[k].result.name : k \in 1..Len(run.published)}
          IN  /\ rt' = [rt EXCEPT ![Runner] = r]
              /\ run' = IF r.out.kind = "raised"
                        THEN Abort(run, r.out.value) ELSE run
              /\ store' = IF r.out.kind = "raised"
                          THEN {o \in store : o.name \notin names} ELSE store
    /\ UNCHANGED <<disableVerify, pub, tmpfiles, calls, namesVars, op, args>>

\* lines 209-217 and 244-251: the lambda raises (a field it reads is missing,
\* or submitter.run fails); retry goes on, or raises after the last attempt
SubmitFail ==
    /\ run.rpc = "submit"
    /\ \E err \in IF FirstMissing(run.entry, LambdaFields) # ""
                  THEN {Error("KeyError", FirstMissing(run.entry, LambdaFields))}
                  ELSE SubmitErrors :
          LET r == retry_failed(rt[Runner], err)
          IN  /\ rt' = [rt EXCEPT ![Runner] = r]
              /\ run' = IF r.out.kind = "raised"
                        THEN Abort(run, r.out.value) ELSE run
    /\ UNCHANGED <<store, disableVerify, pub, tmpfiles, calls, namesVars, op, args>>

(***************************************************************************)
(* get_manifest, lines 108-115: the whole function, the read and the parse, *)
(* is what @retriable() runs again when it raises.                         *)
(***************************************************************************)
\* one invocation of get_manifest raised err: retried, or raised out of main
\* after the last attempt
GetManifestRaises(what, err) ==
    LET r == retry_failed(rt[Runner], err)
        fetched == [run EXCEPT !.fetched = Append(@, what)]
    IN  /\ rt' = [rt EXCEPT ![Runner] = r]
        /\ run' = IF r.out.kind = "raised"
                  THEN Abort(fetched, r.out.value) ELSE fetched

\* line 112: requests.get raises (no connection)
GetManifestFetchFails ==
    /\ run.rpc = "get_manifest"
    /\ GetManifestRaises("error", Error("ConnectionError", 0))
    /\ UNCHANGED <<store, disableVerify, pub, tmpfiles, calls, namesVars, op, args>>

\* lines 112-114: the document is read and json.loads raises ValueError
GetManifestMalformed ==
    /\ run.rpc = "get_manifest"
    /\ GetManifestRaises("malformed", Error("ValueError", <<>>))
    /\ UNCHANGED <<store, disableVerify, pub, tmpfiles, calls, namesVars, op, args>>

\* lines 112-115: the document is read and parsed; main goes on to
\* submit_releases (line 271)
GetManifestOk ==
    /\ run.rpc = "get_manifest"
    /\ rt' = [rt EXCEPT ![Runner] = retry_returned(@, "manifest")]
    /\ run' = [run EXCEPT !.rpc = "next", !.fetched = Append(@, "manifest")]
    /\ UNCHANGED <<store, disableVerify, pub, tmpfiles, calls, namesVars, op, args>>

(***************************************************************************)
(* SpecManifest: main up to its call of submit_releases.                   *)
(***************************************************************************)
InitManifest ==
    /\ store = {}
    /\ disableVerify \in BOOLEAN
    /\ pub = [p \in Procs |-> IdleCall]
    /\ rt = [p \in Procs |-> IF p = Runner
                              THEN retry_begin(DefaultAttempts, DefaultSleeptime,
                                               DefaultMaxSleeptime)
                              ELSE NoRetry]
    /\ tmpfiles = [p \in Procs |-> 0]
    /\ calls = [p \in Procs |-> 0]
    /\ pnIn = NoCall
    /\ pnOut = <<>>
    /\ op = NoOp
    /\ args \in [disable_s3 : BOOLEAN, s3_bucket : {"", "bucket"},
                 aws_key_id : {"", "id"}, aws_key_secret : {"", "secret"}]
    /\ run = [IdleRun EXCEPT !.rpc = "get_manifest"]

NextManifest ==
    \/ GetManifestFetchFails
    \/ GetManifestMalformed
    \/ GetManifestOk

SpecManifest == InitManifest /\ [][NextManifest]_vars

(***************************************************************************)
(* SpecRun: one run of main over a manifest of at most MaxEntries entries. *)
(* The bucket is empty, or the first or every candidate name of the        *)
(* partial artifact is taken.                                              *)
(***************************************************************************)
InitRun ==
    /\ store \in {PrefilledStore(partial_mar_dest(FullEntry(<<"p", ".", "m">>, <<"c">>)),
                                 k, c) :
                    k \in {0, 1, ProbeBound + 1}, c \in Contents}
    /\ disableVerify \in BOOLEAN
    /\ pub = [p \in Procs |-> IdleCall]
    /\ rt = [p \in Procs |-> NoRetry]
    /\ tmpfiles = [p \in Procs |-> 0]
    /\ calls = [p \in Procs |-> 0]
    /\ pnIn = NoCall
    /\ pnOut = <<>>
    /\ op = NoOp
    /\ args \in [disable_s3 : BOOLEAN, s3_bucket : {"", "bucket"},
                 aws_key_id : {"", "id"}, aws_key_secret : {"", "secret"}]
    /\ run = IdleRun

NextRun ==
    \/ ForEntry
    \/ RunDone
    \/ Classify
    \/ PublishPartial
    \/ PublishComplete
    \/ PublishDone
    \/ SubmitOk
    \/ SubmitFail
    \/ DownloadOk(Runner)
    \/ DownloadFail(Runner)
    \/ Verify(Runner)
    \/ GetKey(Runner)
    \/ SetContents(Runner)
    \/ SetAcl(Runner)

SpecRun == InitRun /\ [][NextRun]_vars

(***************************************************************************)
(* SpecRetry: retry() on its own, with an action that fails op.fails times *)
(* and then succeeds.                                                      *)
(***************************************************************************)
InitRetry ==
    /\ store = {}
    /\ disableVerify = FALSE
    /\ pub = [p \in Procs |-> IdleCall]
    /\ \E a \in 1..MaxAttempts, s \in 1..MaxBase, m \in 1..MaxCap :
          rt = [p \in Procs |-> IF p = Runner THEN retry_begin(a, s, m)
                                ELSE NoRetry]
    /\ tmpfiles = [p \in Procs |-> 0]
    /\ calls = [p \in Procs |-> 0]
    /\ pnIn = NoCall
    /\ pnOut = <<>>
    /\ op \in [fails : 0..MaxAttempts]
    /\ args = NoArgs
    /\ run = IdleRun

\* the action raises: it has not failed op.fails times yet
OpFails ==
    /\ rt[Runner].out.kind = "running"
    /\ rt[Runner].calls < op.fails
    /\ rt' = [rt EXCEPT ![Runner] =
                retry_failed(@, Error("OpError", rt[Runner].calls + 1))]
    /\ UNCHANGED <<store, disableVerify, pub, tmpfiles, calls, restVars>>

\* the action returns
OpReturns ==
    /\ rt[Runner].out.kind = "running"
    /\ rt[Runner].calls = op.fails
    /\ rt' = [rt EXCEPT ![Runner] = retry_returned(@, "result")]
    /\ UNCHANGED <<store, disableVerify, pub, tmpfiles, calls, restVars>>

NextRetry == OpFails \/ OpReturns

SpecRetry == InitRetry /\ [][NextRetry]_vars

(***************************************************************************)
(* SpecPub: processes publishing concurrently into one bucket.  The bucket *)
(* starts with the first Prefilled candidate names taken by earlier runs.  *)
(***************************************************************************)
InitPub ==
    /\ op = NoOp
    /\ args = NoArgs
    /\ run = IdleRun
    /\ store \in {PrefilledStore(d, k, c) :
                    d \in DesiredNames, k \in 0..(ProbeBound + 1), c \in Contents}
    /\ disableVerify \in BOOLEAN
    /\ pub = [p \in Procs |-> IdleCall]
    /\ rt = [p \in Procs |-> NoRetry]
    /\ tmpfiles = [p \in Procs |-> 0]
    /\ calls = [p \in Procs |-> 0]
    /\ pnIn = NoCall
    /\ pnOut = <<>>

NextPub ==
    \E p \in Procs :
        \/ Publish(p)
        \/ DownloadOk(p)
        \/ DownloadFail(p)
        \/ Verify(p)
        \/ GetKey(p)
        \/ SetContents(p)
        \/ SetAcl(p)

SpecPub == InitPub /\ [][NextPub]_vars

(***************************************************************************)
(* SpecSeq: one publisher, alone, publishing an artifact and running       *)
(* again.  The first Prefilled candidate names are taken, one of them by   *)
(* another content than the rest.                                          *)
(***************************************************************************)
MixedStore(mar_dest, k, content, j, other) ==
    {[name |-> possible_names(mar_dest, ProbeBound)[m],
      content |-> IF m = j THEN other ELSE content,
      version_id |-> m, public |-> TRUE] : m \in 1..k}

InitSeq ==
    /\ op = NoOp
    /\ args = NoArgs
    /\ run = IdleRun
    /\ store \in {MixedStore(d, k, c, j, c2) :
                    d \in DesiredNames, k \in 0..(ProbeBound + 1), c \in Contents,
                    j \in 1..(ProbeBound + 1), c2 \in Contents}
    /\ disableVerify \in BOOLEAN
    /\ pub = [p \in Procs |-> IdleCall]
    /\ rt = [p \in Procs |-> NoRetry]
    /\ tmpfiles = [p \in Procs |-> 0]
    /\ calls = [p \in Procs |-> 0]
    /\ pnIn = NoCall
    /\ pnOut = <<>>

NextSeq ==
    \E p \in {"p1"} :
        \/ Publish(p)
        \/ Republish(p)
        \/ DownloadOk(p)
        \/ DownloadFail(p)
        \/ Verify(p)
        \/ GetKey(p)
        \/ SetContents(p)
        \/ SetAcl(p)

SpecSeq == InitSeq /\ [][NextSeq]_vars

(***************************************************************************)
(* Claims about the publisher.                                             *)
(***************************************************************************)
NameExhausted(c) ==
    /\ c.pc = "raised"
    /\ c.result = Error("Cannot generate a unique name", c.mar_dest)

\* the call got as far as the loop over the candidate names
Probing(c) == c.lookups > 0

\* C1 (under SpecSeq): a publish repeated with the same content and the same
\* desired name, after a call that returned a URL, makes no create-if-absent
\* write and returns the same version-pinned URL.
C1_Idempotent ==
    \A p \in Procs :
        (/\ pub[p].prev.kind = "call"
         /\ pub[p].prev.result.kind = "url"
         /\ pub[p].prev.content = pub[p].content
         /\ pub[p].prev.mar_dest = pub[p].mar_dest)
        => /\ pub[p].writes = 0
           /\ pub[p].pc \notin {"set_contents", "set_acl"}
           /\ (Ended(p) /\ Probing(pub[p])) => pub[p].result = pub[p].prev.result

\* C1 witness: the first call created a numbered name, the second returned it
C1_Witness ==
    \E p \in Procs :
        /\ pub[p].pc = "returned"
        /\ pub[p].prev.kind = "call"
        /\ pub[p].prev.writes = 1
        /\ pub[p].prev.result.kind = "url"
        /\ pub[p].prev.result.name # pub[p].mar_dest
        /\ pub[p].result = pub[p].prev.result

\* a lookup step of p that finds the name taken by content of another MD5
C2_SkipStep(p) ==
    /\ pub[p].pc = "get_key"
    /\ pub'[p] # pub[p]
    /\ \E o \in Lookup(CandidateName(p)) :
          get_hash(o.content) # get_hash(pub[p].file)

\* C2: a candidate name holding content of another hash is passed over
\* without a write; when all N+1 candidates hold such content the call
\* examines them all, writes nothing and fails with the name-exhaustion
\* error for the desired name.
C2_Collision ==
    /\ [][\A p \in Procs :
            C2_SkipStep(p) =>
              /\ store' = store
              /\ pub'[p].writes = pub[p].writes
              /\ IF pub[p].i = ProbeBound + 1
                 THEN NameExhausted(pub'[p])
                 ELSE pub'[p].pc = "get_key" /\ pub'[p].i = pub[p].i + 1]_vars
    /\ [](\A p \in Procs :
            pub[p].full0 =>
              /\ pub[p].writes = 0
              /\ (Ended(p) /\ Probing(pub[p])) =>
                    /\ NameExhausted(pub[p])
                    /\ pub[p].lookups = ProbeBound + 1)

\* C2 witness: a call that found all eleven names taken and gave up
C2_Witness ==
    \E p \in Procs :
        /\ pub[p].full0
        /\ NameExhausted(pub[p])
        /\ pub[p].lookups = 11
        /\ pub[p].writes = 0

\* a write step of p that finds the name taken since its lookup
C3_LostRaceStep(p) ==
    /\ pub[p].pc = "set_contents"
    /\ pub'[p] # pub[p]
    /\ Lookup(CandidateName(p)) # {}

C3_RaceContinues ==
    \A p \in Procs :
        C3_LostRaceStep(p) =>
          /\ store' = store
          /\ IF pub[p].i = ProbeBound + 1
             THEN NameExhausted(pub'[p])
             ELSE pub'[p].pc = "get_key" /\ pub'[p].i = pub[p].i + 1

\* two publishers of one desired name that both probed and are done, neither
\* having run out of names
C3_BothDone(p, q) ==
    /\ p # q
    /\ Ended(p) /\ Ended(q)
    /\ Probing(pub[p]) /\ Probing(pub[q])
    /\ pub[p].mar_dest = pub[q].mar_dest
    /\ ~NameExhausted(pub[p]) /\ ~NameExhausted(pub[q])

C3_DistinctUrls(p, q) ==
    /\ pub[p].result.kind = "url"
    /\ pub[q].result.kind = "url"
    /\ pub[p].result.name # pub[q].result.name

\* C3 as claimed: two publishers of different content both return URLs, at
\* two distinct candidate names.
C3_Original ==
    \A p, q \in Procs :
        (C3_BothDone(p, q) /\ pub[p].content # pub[q].content)
        => C3_DistinctUrls(p, q)

\* C3 amended: a publisher that loses the race for a name goes on to the next
\* candidate (or runs out of names after the last), and two publishers whose
\* contents have different MD5 digests both return URLs, at two distinct
\* candidate names.
C3_Amended ==
    /\ [][C3_RaceContinues]_vars
    /\ [](\A p, q \in Procs :
            (C3_BothDone(p, q)
             /\ get_hash(pub[p].content) # get_hash(pub[q].content))
            => C3_DistinctUrls(p, q))

\* C3 witness: two publishers of contents with different digests are done,
\* one of them after losing the race for a name
C3_Witness ==
    \E p, q \in Procs :
        /\ C3_BothDone(p, q)
        /\ get_hash(pub[p].content) # get_hash(pub[q].content)
        /\ pub[p].writes = 2
        /\ pub[q].writes = 1
        /\ C3_DistinctUrls(p, q)

\* C14 as claimed: publishers of the same content under the same desired
\* name all end at one candidate name, whatever the interleaving.
C14_Original ==
    \A p, q \in Procs :
        (/\ pub[p].pc = "returned" /\ pub[q].pc = "returned"
         /\ pub[p].content = pub[q].content
         /\ pub[p].mar_dest = pub[q].mar_dest)
        => pub[p].result.name = pub[q].result.name

\* C14 amended: a call that starts when content of its MD5 is stored under a
\* candidate name never looks at a later candidate, writes nothing at or
\* after that name, and returns a URL at that name or an earlier one.
C14_Amended ==
    \A p \in Procs :
        pub[p].stored0 > 0 =>
            /\ pub[p].i <= pub[p].stored0
            /\ pub[p].pc \in {"set_contents", "set_acl"} => pub[p].i < pub[p].stored0
            /\ (Ended(p) /\ Probing(pub[p])) =>
                  /\ pub[p].pc = "returned"
                  /\ pub[p].result.name = CandidateName(p)
                  /\ pub[p].writes <= 1
                  /\ pub[p].writes = 1 => pub[p].i < pub[p].stored0

\* C14 witness: one publisher created a numbered name; the other, starting
\* after that, with the same content, returned that name and wrote nothing
C14_Witness ==
    \E p, q \in Procs :
        /\ p # q
        /\ pub[q].pc = "returned" /\ pub[q].writes = 1
        /\ pub[p].stored0 = 2
        /\ pub[p].pc = "returned" /\ pub[p].writes = 0
        /\ pub[p].content = pub[q].content
        /\ pub[p].result = pub[q].result
        /\ pub[p].i = 2

\* how far the loop of a call has come: the lookups and writes made, and
\* whether it has ended
C15_Progress(c) ==
    c.lookups + c.writes + (IF c.pc \in {"returned", "raised"} THEN 1 ELSE 0)

\* the loop of p looks the candidate names up in order, each once
C15_State ==
    \A p \in Procs :
        /\ pub[p].i \in 0..11
        /\ pub[p].lookups <= 11
        /\ pub[p].writes <= pub[p].lookups
        /\ C15_Progress(pub[p]) <= 23
        /\ pub[p].pc = "get_key" => pub[p].lookups = pub[p].i - 1
        /\ pub[p].pc \in {"set_contents", "set_acl"} => pub[p].lookups = pub[p].i
        /\ (Ended(p) /\ Probing(pub[p])) =>
              \/ /\ pub[p].pc = "returned"
                 /\ pub[p].result.kind = "url"
                 /\ pub[p].result.name = possible_names(pub[p].mar_dest, 10)[pub[p].i]
                 /\ pub[p].lookups = pub[p].i
              \/ /\ pub[p].pc = "raised"
                 /\ pub[p].result =
                       Error("Cannot generate a unique name", pub[p].mar_dest)
                 /\ pub[p].lookups = 11

\* within one call the loop never goes back, goes on by one name at a time,
\* and every step of it is a lookup, a write or the end of the call
C15_Step ==
    \A p \in Procs :
        (pub[p].i > 0 /\ calls'[p] = calls[p])
        => /\ pub'[p].i \in {pub[p].i, pub[p].i + 1}
           /\ pub'[p].lookups \in {pub[p].lookups, pub[p].lookups + 1}
           /\ Ended(p) => pub'[p] = pub[p]
           /\ pub'[p] # pub[p] => C15_Progress(pub'[p]) > C15_Progress(pub[p])

\* C15: a call that got past verification looks up at most 11 candidate
\* names, in order and each once, and never goes back to an earlier one;
\* each step of its loop is one of at most 11 lookups, at most 11 writes or
\* its end; and it ends either returning the URL of the name it looked up
\* last or raising the name-exhaustion error that names the desired name.
C15_BoundedProbe == [][C15_Step]_vars /\ []C15_State

\* C15 witness: a call lost the race for the last free name and ran out of
\* names after eleven lookups
C15_Witness ==
    \E p \in Procs :
        /\ NameExhausted(pub[p])
        /\ pub[p].lookups = 11
        /\ pub[p].writes = 1
        /\ ~pub[p].full0

\* the objects a URL returned to p is pinned to
PinnedTo(p) ==
    {o \in store : /\ o.name = pub[p].result.name
                   /\ o.version_id = pub[p].result.version_id}

\* C18: a URL returned by a call names one version of one object, which is in
\* the bucket and whose content has the MD5 of the caller's content, whether
\* the caller wrote it or found it; and the version is the one the caller
\* wrote or looked up, never left open.
C18_PinnedContent ==
    \A p \in Procs :
        pub[p].result.kind = "url" =>
            /\ pub[p].pc = "returned"
            /\ pub[p].result.version_id # 0
            /\ pub[p].result.version_id = pub[p].version_id
            /\ Cardinality(PinnedTo(p)) = 1
            /\ \A o \in PinnedTo(p) :
                  /\ get_hash(o.content) = get_hash(pub[p].content)
                  /\ pub[p].writes > 0 => o.content = pub[p].content
            /\ \A o \in Lookup(pub[p].result.name) : o \in PinnedTo(p)

\* C18 witness: one publisher wrote the object, the other, with another
\* content of the same MD5, was returned the URL of that version
C18_Witness ==
    \E p, q \in Procs :
        /\ pub[q].pc = "returned" /\ pub[q].writes = 1
        /\ pub[p].pc = "returned" /\ pub[p].writes = 0
        /\ pub[p].content # pub[q].content
        /\ pub[p].result = pub[q].result

\* C19 as claimed: when a call has returned a URL, the version it is pinned to
\* is public-read, on the create path and on the already-published path.
C19_PublicOnReturn ==
    \A p \in Procs :
        pub[p].pc = "returned" => \A o \in PinnedTo(p) : o.public

\* C9: without the override no candidate name is looked up or written before
\* the signature verified; a failed verification ends the call with nothing
\* looked up or written; and one call verifies at most once, however often
\* its download was retried.
C9_VerificationGate ==
    ~disableVerify =>
        \A p \in Procs :
            /\ (pub[p].lookups > 0 \/ pub[p].writes > 0
                \/ pub[p].pc \in {"get_key", "set_contents", "set_acl"})
               => (pub[p].verified /\ signature_ok(pub[p].file))
            /\ pub[p].verifies <= 1
            /\ (Ended(p) /\ pub[p].file # -1 /\ ~signature_ok(pub[p].file))
               => /\ pub[p].result = Error("VerificationFailed", <<>>)
                  /\ pub[p].verifies = 1
                  /\ pub[p].lookups = 0 /\ pub[p].writes = 0

\* C9 witness: the download was retried, the one verification failed
C9_Witness ==
    \E p \in Procs :
        /\ ~disableVerify
        /\ pub[p].result = Error("VerificationFailed", <<>>)
        /\ rt[p].calls = 2
        /\ pub[p].verifies = 1

\* C10 as claimed: no staged file outlives the call that created it.
C10_StagingReleased ==
    \A p \in Procs : Ended(p) => tmpfiles[p] = 0

(***************************************************************************)
(* Claims about submit_releases and retry.                                 *)
(***************************************************************************)
StyleError == Error("Cannot determine Balrog submission style", <<>>)

HasBothPrevious(e) ==
    "previousVersion" \in DOMAIN e /\ "previousBuildNumber" \in DOMAIN e

HasNoPrevious(e) ==
    "previousVersion" \notin DOMAIN e /\ "previousBuildNumber" \notin DOMAIN e

\* the loop has taken an entry and is past its classification
Classified == run.ei > 0 /\ run.rpc # "classify"

Rejected ==
    /\ run.rpc = "aborted"
    /\ run.at = "classify"
    /\ run.error = StyleError
    /\ run.style = "none"
    /\ run.classified = 1
    /\ rt[Runner].calls = 0

C6_RetrySuccess ==
    LET r == rt[Runner]
        K == op.fails
    IN  K < r.attempts =>
          /\ r.calls <= K + 1
          /\ r.out.kind # "raised"
          /\ r.out.kind = "returned" =>
               /\ r.out.value = "result"
               /\ r.calls = K + 1
               /\ Len(r.sleeps) = K
               /\ \A i \in 1..K :
                    r.sleeps[i] = IF r.sleeptime * 2 ^ (i - 1) > r.max_sleeptime
                                  THEN r.max_sleeptime
                                  ELSE r.sleeptime * 2 ^ (i - 1)

\* C6 witness: three failures, the third sleep capped
C6_Witness ==
    /\ op.fails = 3
    /\ rt[Runner].out.kind = "returned"
    /\ rt[Runner].calls = 4
    /\ rt[Runner].sleeps = <<2, 4, 5>>

\* the retry record is that of the nightly-style submission of the entry
NightlySubmission ==
    /\ run.style = "nightly"
    /\ \/ run.rpc \in {"submit", "next", "done"}
       \/ run.rpc = "aborted" /\ run.at = "submit"

\* C7: the nightly-style submission is invoked at most 30 times, sleeping
\* 10, 20, 40 and then 60 between invocations; when the 30th fails too, the
\* run aborts with the error of that invocation.
C7_NightlyBudget ==
    LET r == rt[Runner]
    IN  NightlySubmission =>
          /\ r.calls <= 30
          /\ \A i \in 1..Len(r.sleeps) :
               r.sleeps[i] = IF i = 1 THEN 10 ELSE IF i = 2 THEN 20
                             ELSE IF i = 3 THEN 40 ELSE 60
          /\ r.out.kind = "running" => Len(r.sleeps) = r.calls
          /\ r.out.kind = "returned" => Len(r.sleeps) = r.calls - 1
          /\ r.out.kind = "raised" <=> run.rpc = "aborted"
          /\ run.rpc = "aborted" =>
               /\ r.calls = 30
               /\ Len(r.sleeps) = 29
               /\ r.last \in SubmitErrors
               /\ run.error = r.last

\* C7 witness: thirty invocations failed and the run aborted
C7_Witness ==
    /\ NightlySubmission
    /\ run.rpc = "aborted"
    /\ rt[Runner].calls = 30
    /\ run.error = Error("HTTPError", 500)

\* the entry was nightly-style and its submission was accepted
NightlyDone ==
    /\ run.style = "nightly"
    /\ run.rpc \in {"next", "done"}

\* C8: a nightly-style entry that is done has had one publish of the partial
\* under <branch>/<to_buildid>/<mar>, one of the complete under
\* <branch>/<to_buildid>/<appName>-<branch>-<version>-<platform>-<locale>.complete.mar,
\* both returning URLs, and then one accepted submission whose partialInfo
\* and completeInfo carry those URLs and whose partialInfo carries the
\* entry's from_buildid.
C8_NightlyEndToEnd ==
    LET e == run.entry
        slash == <<"/">>
        dir == e.branch \o slash \o e.to_buildid \o slash
        suffix == <<".", "c", "o", "m", "p", "l", "e", "t", "e", ".", "m", "a", "r">>
    IN  /\ run.style = "nightly" => (uploads_enabled /\ Len(run.published) <= 2)
        /\ run.payload.style # "none" <=> (run.ei > 0 /\ run.rpc \in {"next", "done"})
        /\ NightlyDone =>
             /\ Len(run.published) = 2
             /\ run.published[1].mar_dest = dir \o e.mar
             /\ run.published[2].mar_dest =
                    dir \o e.appName \o <<"-">> \o e.branch \o <<"-">> \o e.version
                        \o <<"-">> \o e.platform \o <<"-">> \o e.locale \o suffix
             /\ \A k \in 1..2 :
                  /\ run.published[k].result.kind = "url"
                  /\ \E j \in 1..11 :
                        run.published[k].result.name =
                           possible_names(run.published[k].mar_dest, 10)[j]
             /\ run.payload.style = "nightly"
             /\ Len(run.payload.partialInfo) = 1
             /\ Len(run.payload.completeInfo) = 1
             /\ run.payload.partialInfo[1].url = run.published[1].result
             /\ run.payload.completeInfo[1].url = run.published[2].result
             /\ run.payload.partialInfo[1].from_buildid = e.from_buildid
             /\ rt[Runner].out.kind = "returned"

\* C8 witness: the desired name of the partial was taken, so the submission
\* carries the URL of a numbered name
C8_Witness ==
    /\ NightlyDone
    /\ run.published[1].mar_dest = <<"b", "/", "2", "/", "p", ".", "m">>
    /\ run.payload.partialInfo[1].url.name = <<"b", "/", "2", "/", "p", "-", "1", ".", "m">>
    /\ run.payload.completeInfo[1].url.kind = "url"
    /\ run.payload.partialInfo[1].from_buildid = <<"1">>

(***************************************************************************)
(* Claims about the run as a whole.                                        *)
(***************************************************************************)
\* the errors the claim calls fatal, and where the run was when each left it
C11_Fatal ==
    \/ run.at = "entry" /\ run.error.error = "KeyError"
    \/ run.at = "classify" /\ run.error = StyleError
    \/ run.at = "nightly" /\ run.error.error = "KeyError"
    \/ /\ run.at \in {"pub_partial", "pub_complete"}
       /\ run.error = pub[Runner].result
       /\ \/ run.error = Error("VerificationFailed", <<>>)
          \/ NameExhausted(pub[Runner])
          \/ /\ run.error = Error("IOError", <<>>)
             /\ rt[Runner].out.kind = "raised"
             /\ rt[Runner].calls = rt[Runner].attempts
    \/ /\ run.at = "submit"
       /\ run.error = rt[Runner].last
       /\ rt[Runner].out.kind = "raised"
       /\ rt[Runner].calls = rt[Runner].attempts

\* an error raised for the entry is the end of the run
C11_State ==
    /\ run.error.kind # "none" <=> run.rpc = "aborted"
    /\ run.rpc = "aborted" => C11_Fatal
    /\ rt[Runner].out.kind = "raised"
         => (run.rpc = "aborted" \/ pub[Runner].pc = "raised")
    /\ pub[Runner].pc = "raised"
         => run.rpc \in {"pub_partial", "pub_complete", "aborted"}

\* a publish that raised is followed by the abort and nothing else; after the
\* abort nothing is taken from the manifest, published or submitted
C11_Step ==
    /\ (pub[Runner].pc = "raised" /\ run.rpc # "aborted")
         => /\ run'.rpc = "aborted"
            /\ run'.error = pub[Runner].result
            /\ run'.ei = run.ei
            /\ UNCHANGED <<store, pub, rt, calls, tmpfiles>>
    /\ run.rpc = "aborted"
         => UNCHANGED <<run, store, pub, rt, calls, tmpfiles>>

\* C11: when the processing of an entry raises (a classification error, a
\* failed verification, name exhaustion, a download or a submission that
\* failed on its last attempt), the run aborts with that error, and after
\* the abort no further entry is taken and nothing is published or submitted.
C11_AbortOnFatal == [][C11_Step]_vars /\ []C11_State

\* C11 witness: the first entry ran out of names and the run aborted there,
\* the manifest not being at its end
C11_Witness ==
    /\ run.rpc = "aborted"
    /\ run.ei = 1
    /\ run.ei < MaxEntries
    /\ run.at = "pub_partial"
    /\ NameExhausted(pub[Runner])
    /\ run.error = pub[Runner].result

\* the entry was release-style and its submission was accepted
ReleaseDone ==
    /\ run.style = "release"
    /\ run.rpc \in {"next", "done"}

\* no step taken for a release-style entry touches the bucket, a staged file
\* or the publisher
C13_Step ==
    (run.style = "release" \/ run'.style = "release")
    => UNCHANGED <<store, pub, calls, tmpfiles>>

C13_State ==
    LET e == run.entry
    IN  /\ run.style = "release" =>
             /\ pub[Runner] = IdleCall
             /\ run.published = <<>>
             /\ "url" \notin DOMAIN run.partial_info
             /\ "url" \notin DOMAIN run.complete_info
        /\ ReleaseDone =>
             /\ run.payload.style = "release"
             /\ run.payload.partialInfo =
                    <<[hash |-> e.hash, size |-> e.size,
                       previousVersion |-> e.previousVersion,
                       previousBuildNumber |-> e.previousBuildNumber]>>
             /\ run.payload.completeInfo =
                    <<[hash |-> e.to_hash, size |-> e.to_size]>>

\* C13: for a release-style entry nothing is downloaded, verified, looked up
\* or written, the bucket stays as it was, and the submitted partialInfo is
\* the entry's hash, size, previousVersion and previousBuildNumber and the
\* completeInfo its to_hash and to_size, neither carrying a URL.
C13_ReleaseFrame == [][C13_Step]_vars /\ []C13_State

\* C13 witness: a release-style entry was accepted on the second invocation,
\* the bucket holding objects of earlier runs
C13_Witness ==
    /\ ReleaseDone
    /\ run.payload.style = "release"
    /\ rt[Runner].calls = 2
    /\ store # {}

\* the publisher runs only while the loop waits for it, first for the partial
\* and then, the partial's URL returned, for the complete; the submission is
\* entered with both URLs
C16_State ==
    LET e == run.entry
        busy == pub[Runner].pc \notin {"idle", "returned", "raised"}
    IN  /\ Len(run.published) <= 2
        /\ busy => run.rpc \in {"pub_partial", "pub_complete"}
        /\ run.rpc = "pub_partial" =>
              /\ Len(run.published) = 1
              /\ run.published[1].mar_dest = partial_mar_dest(e)
              /\ pub[Runner].mar_dest = partial_mar_dest(e)
              /\ pub[Runner].content = Served(Slash(parent_url, e.mar))
        /\ run.rpc = "pub_complete" =>
              /\ Len(run.published) = 2
              /\ run.published[1].mar_dest = partial_mar_dest(e)
              /\ run.published[1].result.kind = "url"
              /\ run.published[2].mar_dest = complete_mar_dest(e)
              /\ pub[Runner].mar_dest = complete_mar_dest(e)
              /\ pub[Runner].content = Served(e.to_mar)
        /\ NightlySubmission =>
              /\ Len(run.published) = 2
              /\ run.published[1].mar_dest = partial_mar_dest(e)
              /\ run.published[2].mar_dest = complete_mar_dest(e)
              /\ run.published[1].result.kind = "url"
              /\ run.published[2].result.kind = "url"
              /\ pub[Runner].pc = "returned"

\* the loop takes the entries one after the other, the next one only when
\* the submission of the one before has returned
C16_Step ==
    /\ run'.ei \in {run.ei, run.ei + 1}
    /\ run'.ei = run.ei + 1 =>
          /\ run.rpc = "next"
          /\ run.ei > 0 => /\ rt[Runner].out.kind = "returned"
                           /\ run.payload.style = run.style
                           /\ run.style \in {"release", "nightly"}
    /\ run'.ei = run.ei =>
          /\ run'.entry = run.entry
          /\ Len(run'.published) >= Len(run.published)
    /\ (rt'[Runner].calls > rt[Runner].calls /\ run.style = "nightly"
        /\ run.rpc = "submit")
          => /\ run.published[1].result.kind = "url"
             /\ run.published[2].result.kind = "url"

\* C16: the entries are taken one at a time, each next one only after the
\* submission of the one before returned; for a nightly-style entry the
\* partial is published first, the complete after the partial's URL was
\* returned, and the submission is invoked only with both URLs returned.
C16_Ordering == [][C16_Step]_vars /\ []C16_State

\* C16 witness: the second entry of the manifest, nightly-style, is done
C16_Witness ==
    /\ run.ei = 2
    /\ NightlyDone
    /\ Len(run.published) = 2
    /\ run.published[2].result.kind = "url"
    /\ rt[Runner].calls = 2

\* the object a returned URL is pinned to
Pinned(url) ==
    {o \in store : o.name = url.name /\ o.version_id = url.version_id}

\* every object stays, with its name, content and version; a name has one
\* version
C17_Step ==
    \A o \in store :
        \E kept \in store' :
            /\ kept.name = o.name
            /\ kept.content = o.content
            /\ kept.version_id = o.version_id
            /\ o.public => kept.public

C17_State ==
    /\ \A o1, o2 \in store : o1.name = o2.name => o1 = o2
    /\ (run.rpc = "aborted" /\ run.at = "submit" /\ run.style = "nightly") =>
          /\ run.payload.style = "none"
          /\ \E o \in Pinned(run.published[1].result) :
                /\ get_hash(o.content) =
                      get_hash(Served(Slash(parent_url, run.entry.mar)))
                /\ o.public
          /\ \E o \in Pinned(run.published[2].result) :
                /\ get_hash(o.content) = get_hash(Served(run.entry.to_mar))
                /\ o.public

\* C17: no step deletes an object of the bucket or changes its content or
\* version; when the submission of a nightly-style entry has failed for good,
\* the objects its two publishes returned are in the bucket as they were
\* written, and no submission of the entry was accepted.
C17_NoRollback == [][C17_Step]_vars /\ []C17_State

\* C17 witness: the run wrote the complete artifact, the submission failed
\* thirty times, and the object is still there
C17_Witness ==
    /\ run.rpc = "aborted" /\ run.at = "submit" /\ run.style = "nightly"
    /\ rt[Runner].calls = 30
    /\ pub[Runner].writes = 1
    /\ Pinned(pub[Runner].result) # {}

\* C12 as claimed (under SpecManifest): a manifest document that was read and
\* does not parse ends the run with the parse error after that one read; no
\* read of the manifest follows one that did not parse.
C12_ParseNotRetried ==
    \A k \in 1..Len(run.fetched) :
        run.fetched[k] = "malformed"
        => /\ k = Len(run.fetched)
           /\ k = 1 \/ run.fetched[k - 1] = "error"
           /\ run.rpc = "aborted"
           /\ run.error = Error("ValueError", <<>>)

(***************************************************************************)
(* SpecNames: possible_names applied to every name up to MaxLen characters *)
(* and every amount up to MaxAmount.                                       *)
(***************************************************************************)
RECURSIVE StringsUpTo(_)
StringsUpTo(n) ==
    IF n = 0 THEN {<<>>}
    ELSE LET shorter == StringsUpTo(n - 1)
         IN  shorter \cup {Append(s, c) : s \in {t \in shorter : Len(t) = n - 1},
                                          c \in Alphabet}

InitNames ==
    /\ op = NoOp
    /\ args = NoArgs
    /\ run = IdleRun
    /\ store = {}
    /\ disableVerify = FALSE
    /\ pub = [p \in Procs |-> IdleCall]
    /\ rt = [p \in Procs |-> NoRetry]
    /\ tmpfiles = [p \in Procs |-> 0]
    /\ calls = [p \in Procs |-> 0]
    /\ pnIn \in [name : StringsUpTo(MaxLen) \ {<<>>}, amount : 0..MaxAmount]
    /\ pnOut = <<>>

CallPossibleNames ==
    /\ pnOut = <<>>
    /\ pnOut' = possible_names(pnIn.name, pnIn.amount)
    /\ UNCHANGED <<pnIn, pubVars, op, args, run>>

NextNames == CallPossibleNames

SpecNames == InitNames /\ [][NextNames]_vars

(***************************************************************************)
(* C4                                                                      *)
(***************************************************************************)
\* the decimal value of a string of digits, -1 when it is not one
RECURSIVE DecimalValue(_)
DecimalValue(s) ==
    IF s = <<>> THEN -1
    ELSE LET d == CHOOSE k \in 0..10 :
                    \/ (k < 10 /\ DigitChar[k + 1] = s[Len(s)])
                    \/ (k = 10 /\ \A j \in 1..10 : DigitChar[j] # s[Len(s)])
         IN  IF d = 10 THEN -1
             ELSE IF Len(s) = 1 THEN d
             ELSE LET rest == DecimalValue(SubSeq(s, 1, Len(s) - 1))
                  IN  IF rest < 0 THEN -1 ELSE rest * 10 + d

\* k is where the file extension of name starts (Len(name) + 1: no extension)
IsExtStart(name, k) ==
    LET lastSep == rfind(name, "/")
        real == {j \in (lastSep + 2)..Len(name) :
                    /\ name[j] = "."
                    /\ \E i \in (lastSep + 1)..(j - 1) : name[i] # "."}
    IN  IF real = {} THEN k = Len(name) + 1
        ELSE k \in real /\ \A j \in real : j <= k

\* C4: possible_names(name, N) has N+1 entries, pairwise distinct, the first
\* is the name unmodified and entry i is the name with "-i" inserted before
\* its file extension.
C4_CandidateNames ==
    pnOut # <<>> =>
        /\ Len(pnOut) = pnIn.amount + 1
        /\ \A i, j \in 1..Len(pnOut) : i # j => pnOut[i] # pnOut[j]
        /\ pnOut[1] = pnIn.name
        /\ \A i \in 1..pnIn.amount :
             \E k \in 1..(Len(pnIn.name) + 1) :
                /\ IsExtStart(pnIn.name, k)
                /\ LET added == Len(pnOut[i + 1]) - Len(pnIn.name)
                   IN  /\ added >= 2
                       /\ SubSeq(pnOut[i + 1], 1, k - 1) = SubSeq(pnIn.name, 1, k - 1)
                       /\ pnOut[i + 1][k] = "-"
                       /\ DecimalValue(SubSeq(pnOut[i + 1], k + 1, k + added - 1)) = i
                       /\ SubSeq(pnOut[i + 1], k + added, Len(pnOut[i + 1]))
                            = SubSeq(pnIn.name, k, Len(pnIn.name))

\* C4 witness: a name with an extension and a two-digit counter
C4_Witness ==
    /\ pnOut # <<>>
    /\ pnIn.name = <<"a", ".", "a">>
    /\ pnIn.amount = 10
    /\ pnOut[11] = <<"a", "-", "1", "0", ".", "a">>

====
